---- MODULE Spec2Model ----
(***************************************************************************)
(* A model of app/datatrove_pipeline.py: the Rehydrater pipeline step, the *)
(* EnhancedWarcReader, and the five-executor MinHash deduplication         *)
(* pipeline built by run_full_pipeline.                                    *)
(***************************************************************************)
EXTENDS Integers, Sequences, FiniteSets, TLC

VARIABLES
    \* ---- Rehydrater.run (one generator, possibly re-applied to its output)
    data,          \* the DocumentsPipeline handed to Rehydrater.run
    data_pos,      \* how many documents of data the for loop has consumed
    out,           \* the documents yielded so far
    rstate,        \* "idle" | "running" | "finished" | "raised"
    pass,          \* 1: first application, 2: applied to its own output
    first_out,     \* what the first application yielded
    \* ---- EnhancedWarcReader inside one task
    shard,         \* the files of the task, each [ndocs, fail_at, exc]
    file_idx,      \* index of the file being read (1-based)
    file_pos,      \* documents yielded from the current file
    yielded,       \* <<file, i>> pairs yielded by the reader, in order
    error_log,     \* files for which logger.error was called
    reader_status, \* "idle" | "reading" | "completed" | "aborted"
    \* ---- run_full_pipeline
    num_tasks,        \* the num_tasks argument
    scrape_status,    \* scrape_filter_stage: "idle" | "pending" | "done" | "failed"
    filtering_output, \* the files of {output_path}/filtering_output
    task_status,      \* stage -> rank -> "pending" | "running" | "done" | "failed"
    signatures,       \* steps/1_signatures: records [doc, band, fp]
    buckets,          \* steps/2_buckets: records [band, a, b], one per duplicate pair
    clusters,         \* steps/3_clusters: doc id -> [cluster_id, cluster_size]
    cursor,           \* stage 4: rank -> documents of its shard already processed
    dedup_output,     \* {output_path}/dedup_output: rank -> documents written
    removed,          \* {dedup_output_path}/removed: rank -> documents excluded
    task_error        \* stage 4: rank -> exception that ended the task, or "none"

rvars == <<data, data_pos, out, rstate, pass, first_out>>
wvars == <<shard, file_idx, file_pos, yielded, error_log, reader_status>>
pvars == <<num_tasks, scrape_status, filtering_output, task_status, signatures,
           buckets, clusters, cursor, dedup_output, removed, task_error>>
vars == <<rvars, wvars, pvars>>

(***************************************************************************)
(* Bounds                                                                  *)
(***************************************************************************)
MaxClusterSize == 1500
MaxFiles == 2
MaxFileDocs == 2
MaxDocs == 3
\* MinhashConfig(num_buckets=14) in the source; the model keeps two bands
num_buckets == 2

(***************************************************************************)
(* Python helpers                                                          *)
(***************************************************************************)
\* sorted(S) for a finite set of integers
RECURSIVE sorted(_)
sorted(S) ==
    IF S = {} THEN <<>>
    ELSE LET m == CHOOSE x \in S : \A y \in S : x <= y
         IN <<m>> \o sorted(S \ {m})

\* bisect.bisect_left(a, x): the variant that lands left of equal elements
RECURSIVE bisect_left_loop(_, _, _, _)
bisect_left_loop(a, x, lo, hi) ==
    IF lo < hi
    THEN LET mid == (lo + hi) \div 2
         IN IF a[mid + 1] < x
            THEN bisect_left_loop(a, x, mid + 1, hi)
            ELSE bisect_left_loop(a, x, lo, mid)
    ELSE lo

bisect_left(a, x) == bisect_left_loop(a, x, 0, Len(a))

\* bisect.bisect_right(a, x): lo, hi are 0-based as in CPython; a[mid] is a[mid+1] here
RECURSIVE bisect_right_loop(_, _, _, _)
bisect_right_loop(a, x, lo, hi) ==
    IF lo < hi
    THEN LET mid == (lo + hi) \div 2
         IN IF x < a[mid + 1]
            THEN bisect_right_loop(a, x, lo, mid)
            ELSE bisect_right_loop(a, x, mid + 1, hi)
    ELSE lo

bisect_right(a, x) == bisect_right_loop(a, x, 0, Len(a))

\* a[i] for a Python list and a 0-based index i; negative indices count from the end
PyIndex(a, i) == IF i < 0 THEN a[Len(a) + i + 1] ELSE a[i + 1]

\* d[k] = v on a dict
SetKey(d, k, v) == [x \in (DOMAIN d) \cup {k} |-> IF x = k THEN v ELSE d[x]]

(***************************************************************************)
(* Rehydrater                                                              *)
(***************************************************************************)
upsampling_weights == (1 :> 1) @@ (2 :> 2) @@ (3 :> 3) @@ (5 :> 5) @@ (100 :> 8) @@ (1000 :> 1)

limits == sorted(DOMAIN upsampling_weights)

\* the weight looked up for a cluster size
upsampling_weight(size) ==
    upsampling_weights[PyIndex(limits, bisect_right(limits, size) - 1)]

\* doc.metadata["minhash_cluster_size"] raises KeyError when the key is absent
RaisesKeyError(doc) == "minhash_cluster_size" \notin DOMAIN doc.metadata

\* the body of the for loop up to the yield: the document with its weight set
RehydrateDoc(doc) ==
    [doc EXCEPT !.metadata =
        SetKey(doc.metadata, "upsampling_weight",
               upsampling_weight(doc.metadata["minhash_cluster_size"]))]

\* the commented-out alternative: repeat each document upsampling_weight times
RECURSIVE Repeat(_, _)
Repeat(doc, n) == IF n <= 0 THEN <<>> ELSE <<doc>> \o Repeat(doc, n - 1)

RehydraterYieldRepeated(doc) == Repeat(doc, doc.metadata["upsampling_weight"])

\* what one iteration yields: the document, once
RehydraterYield(doc) == <<doc>>

\* ---- inputs
SizeSamples == {1, 4, 100}

Meta(k) == IF k = -1 THEN [url |-> "u"] ELSE [url |-> "u", minhash_cluster_size |-> k]

MkDoc(i, k) == [id |-> i, text |-> "t", metadata |-> Meta(k)]

RehydraterInputs ==
    { <<MkDoc(1, k1), MkDoc(2, k2)>> :
        k1 \in 0..MaxClusterSize, k2 \in SizeSamples \cup {-1} }

ReaderIdle ==
    /\ shard = <<>>
    /\ file_idx = 0
    /\ file_pos = 0
    /\ yielded = <<>>
    /\ error_log = <<>>
    /\ reader_status = "idle"

RehydraterIdle ==
    /\ data = <<>>
    /\ data_pos = 0
    /\ out = <<>>
    /\ rstate = "idle"
    /\ pass = 0
    /\ first_out = <<>>

PipelineIdle ==
    /\ num_tasks = 0
    /\ scrape_status = "idle"
    /\ filtering_output = <<>>
    /\ task_status = <<>>
    /\ signatures = {}
    /\ buckets = {}
    /\ clusters = <<>>
    /\ cursor = <<>>
    /\ dedup_output = <<>>
    /\ removed = <<>>
    /\ task_error = <<>>

InitRehydrate ==
    /\ PipelineIdle
    /\ data \in RehydraterInputs
    /\ data_pos = 0
    /\ out = <<>>
    /\ rstate = "running"
    /\ pass = 1
    /\ first_out = <<>>
    /\ ReaderIdle

\* one iteration of `for doc in data`
RehydraterNext ==
    /\ rstate = "running"
    /\ data_pos < Len(data)
    /\ LET doc == data[data_pos + 1]
       IN IF RaisesKeyError(doc)
          THEN /\ rstate' = "raised"
               /\ UNCHANGED <<data_pos, out>>
          ELSE /\ out' = out \o RehydraterYield(RehydrateDoc(doc))
               /\ data_pos' = data_pos + 1
               /\ rstate' = rstate
    /\ UNCHANGED <<data, pass, first_out, wvars, pvars>>

\* the for loop is exhausted: the generator returns
RehydraterStop ==
    /\ rstate = "running"
    /\ data_pos = Len(data)
    /\ rstate' = "finished"
    /\ UNCHANGED <<data, data_pos, out, pass, first_out, wvars, pvars>>

\* Rehydrater().run(...) applied to what the first application yielded
RehydraterRerun ==
    /\ rstate \in {"finished", "raised"}
    /\ pass = 1
    /\ first_out' = out
    /\ data' = out
    /\ data_pos' = 0
    /\ out' = <<>>
    /\ pass' = 2
    /\ rstate' = "running"
    /\ UNCHANGED <<wvars, pvars>>

NextRehydrate == RehydraterNext \/ RehydraterStop \/ RehydraterRerun

SpecRehydrate == InitRehydrate /\ [][NextRehydrate]_vars

(***************************************************************************)
(* EnhancedWarcReader                                                      *)
(***************************************************************************)
\* exception classes super().read_file can raise; the last derives from
\* BaseException only
ExceptionKinds == {"OSError", "KeyboardInterrupt"}

\* a read_file without the try block: every exception leaves the generator
ExceptNothing(exc) == FALSE

\* `except Exception as e`: matches the classes deriving from Exception
ExceptException(exc) == exc \in {"OSError"}

\* a file: ndocs records; fail_at = -1 reads cleanly, fail_at = n raises exc
\* once n records have been yielded
FileKinds ==
    { [ndocs |-> n, fail_at |-> -1, exc |-> "none"] : n \in 0..MaxFileDocs }
    \cup
    { fl \in [ndocs : 0..MaxFileDocs, fail_at : 0..MaxFileDocs, exc : ExceptionKinds] :
        fl.fail_at <= fl.ndocs }

RECURSIVE SeqsUpTo(_, _)
SeqsUpTo(S, n) ==
    IF n = 0 THEN {<<>>}
    ELSE LET shorter == SeqsUpTo(S, n - 1)
         IN shorter \cup { Append(q, x) : q \in { y \in shorter : Len(y) = n - 1 }, x \in S }

ReaderShards == { q \in SeqsUpTo(FileKinds, MaxFiles) : Len(q) >= 1 }

InitReader ==
    /\ PipelineIdle
    /\ shard \in ReaderShards
    /\ file_idx = 1
    /\ file_pos = 0
    /\ yielded = <<>>
    /\ error_log = <<>>
    /\ reader_status = "reading"
    /\ RehydraterIdle

\* the generator of the current file has ended: the reader's loop over the
\* files of its shard takes the next file, or the task's input is exhausted
NextFile ==
    /\ file_pos' = 0
    /\ file_idx' = file_idx + 1
    /\ reader_status' = IF file_idx = Len(shard) THEN "completed" ELSE "reading"

\* yield from super().read_file(filepath): one more document
ReadFileYield ==
    /\ reader_status = "reading"
    /\ file_pos < shard[file_idx].ndocs
    /\ file_pos # shard[file_idx].fail_at
    /\ yielded' = Append(yielded, <<file_idx, file_pos + 1>>)
    /\ file_pos' = file_pos + 1
    /\ UNCHANGED <<shard, file_idx, error_log, reader_status, rvars, pvars>>

\* super().read_file raises: the except clause logs and the generator ends,
\* or the exception is not matched and leaves read_file
ReadFileRaise ==
    /\ reader_status = "reading"
    /\ file_pos = shard[file_idx].fail_at
    /\ IF ExceptException(shard[file_idx].exc)
       THEN /\ error_log' = Append(error_log, file_idx)
            /\ NextFile
       ELSE /\ reader_status' = "aborted"
            /\ UNCHANGED <<error_log, file_idx, file_pos>>
    /\ UNCHANGED <<shard, yielded, rvars, pvars>>

\* super().read_file returns normally
ReadFileReturn ==
    /\ reader_status = "reading"
    /\ file_pos = shard[file_idx].ndocs
    /\ file_pos # shard[file_idx].fail_at
    /\ NextFile
    /\ UNCHANGED <<shard, yielded, error_log, rvars, pvars>>

NextReader == ReadFileYield \/ ReadFileRaise \/ ReadFileReturn

SpecReader == InitReader /\ [][NextReader]_vars

(***************************************************************************)
(* run_full_pipeline: configuration                                        *)
(***************************************************************************)
\* argparse default of -t
DefaultNumTasks == 1

NumTasksChoices == {DefaultNumTasks, 5, 10}

dedup_tasks == num_tasks \div 5

DedupStages == {"stage1", "stage2", "stage3", "stage4"}

\* the depends= argument of each executor, with a miswired stage 4
depends_skipping_stage3 ==
    [stage1 |-> "scrape_filter_stage", stage2 |-> "stage1",
     stage3 |-> "stage2", stage4 |-> "stage2"]

\* the depends= argument of each executor
depends ==
    [stage1 |-> "scrape_filter_stage", stage2 |-> "stage1",
     stage3 |-> "stage2", stage4 |-> "stage3"]

stage1_tasks == dedup_tasks

\* one bucket left without a task
stage2_tasks_short == num_buckets - 1

stage2_tasks == num_buckets

stage3_tasks == 1

stage4_tasks == dedup_tasks

tasks ==
    [stage1 |-> stage1_tasks, stage2 |-> stage2_tasks,
     stage3 |-> stage3_tasks, stage4 |-> stage4_tasks]

\* MinhashDedupFilter(load_cluster_ids=True, load_cluster_sizes=True,
\*                    exclusion_writer=JsonlWriter(...))
load_cluster_ids == TRUE

load_cluster_sizes == TRUE

no_exclusion_writer == FALSE

exclusion_writer == TRUE

(***************************************************************************)
(* The corpus                                                              *)
(***************************************************************************)
Docs == 1..MaxDocs

Fingerprints == {"fa", "fb"}

\* a text is abstracted to the band fingerprints its n-grams hash to; <<>> is
\* a text with no n-gram
Texts == {<<>>} \cup [1..num_buckets -> Fingerprints]

Ascending == [i \in 1..MaxDocs |-> i]

Descending == [i \in 1..MaxDocs |-> MaxDocs + 1 - i]

\* the documents spread over two input files: in ascending or descending order
\* with the first document alone in the first file, or all in the second file
Shardings ==
    { <<SubSeq(op[1], 1, op[2]), SubSeq(op[1], op[2] + 1, MaxDocs)>> :
        op \in {<<Ascending, 1>>, <<Descending, 1>>, <<Descending, 0>>} }

\* the texts of the corpus; fingerprint values are interchangeable within a
\* band, so the first document that has n-grams is given "fa" in every band
CorpusTexts ==
    { text \in [Docs -> Texts] :
        \A d \in Docs :
            (text[d] # <<>> /\ \A e \in 1..(d - 1) : text[e] = <<>>)
                => text[d] = [b \in 1..num_buckets |-> "fa"] }

Corpus(sharding, text) ==
    [f \in DOMAIN sharding |->
        [i \in DOMAIN sharding[f] |->
            [id |-> sharding[f][i], text |-> text[sharding[f][i]],
             metadata |-> [url |-> "u"]]]]

\* the reader of rank `rank` among `world_size` tasks reads files[rank::world_size]
RECURSIVE ShardFrom(_, _, _, _)
ShardFrom(files, i, rank, world_size) ==
    IF i > Len(files) THEN <<>>
    ELSE (IF (i - 1) % world_size = rank THEN files[i] ELSE <<>>)
         \o ShardFrom(files, i + 1, rank, world_size)

TaskDocs(rank, world_size) == ShardFrom(filtering_output, 1, rank, world_size)

(***************************************************************************)
(* The stages' computations                                                *)
(***************************************************************************)
\* MinhashDedupSignature: one fingerprint per band, none for a text without n-grams
MinhashDedupSignature(doc) ==
    { [doc |-> doc.id, band |-> b, fp |-> doc.text[b]] : b \in DOMAIN doc.text }

\* MinhashDedupBuckets for one band: a pair for every two documents sharing the
\* band's fingerprint
MinhashDedupBuckets(band, sigs) ==
    { [band |-> band, a |-> x.doc, b |-> y.doc] :
        <<x, y>> \in { pr \in sigs \X sigs :
                         /\ pr[1].band = band
                         /\ pr[2].band = band
                         /\ pr[1].fp = pr[2].fp
                         /\ pr[1].doc < pr[2].doc } }

RECURSIVE Reach(_, _)
Reach(S, E) ==
    LET step == S \cup { e.b : e \in { x \in E : x.a \in S } }
                  \cup { e.a : e \in { x \in E : x.b \in S } }
    IN IF step = S THEN S ELSE Reach(step, E)

SetMin(S) == CHOOSE x \in S : \A y \in S : x <= y

\* MinhashDedupCluster(save_cluster_id, save_cluster_size): connected components
\* of the pairs, each named by its minimum member
MinhashDedupCluster(E) ==
    LET nodes == { e.a : e \in E } \cup { e.b : e \in E }
    IN [d \in nodes |->
          [cluster_id |-> SetMin(Reach({d}, E)),
           cluster_size |-> Cardinality(Reach({d}, E))]]

\* whether the filter annotates a document that has no cluster assignment is
\* not fixed by its contract
UnassignedAnnotation == {TRUE, FALSE}

\* MinhashDedupFilter on one document: [keep, doc]
MinhashDedupFilter(doc, annotate) ==
    IF doc.id \in DOMAIN clusters
    THEN LET c == clusters[doc.id]
             m1 == IF load_cluster_ids
                   THEN SetKey(doc.metadata, "minhash_cluster_id", c.cluster_id)
                   ELSE doc.metadata
             m2 == IF load_cluster_sizes
                   THEN SetKey(m1, "minhash_cluster_size", c.cluster_size)
                   ELSE m1
         IN [keep |-> doc.id = c.cluster_id, doc |-> [doc EXCEPT !.metadata = m2]]
    ELSE LET m1 == IF load_cluster_ids /\ annotate
                   THEN SetKey(doc.metadata, "minhash_cluster_id", doc.id)
                   ELSE doc.metadata
             m2 == IF load_cluster_sizes /\ annotate
                   THEN SetKey(m1, "minhash_cluster_size", 1)
                   ELSE m1
         IN [keep |-> TRUE, doc |-> [doc EXCEPT !.metadata = m2]]

(***************************************************************************)
(* run_full_pipeline: the executors                                        *)
(***************************************************************************)
Init ==
    /\ RehydraterIdle
    /\ ReaderIdle
    /\ num_tasks \in NumTasksChoices
    /\ scrape_status = "pending"
    /\ filtering_output = <<>>
    /\ task_status = [s \in DedupStages |-> [r \in 0..(tasks[s] - 1) |-> "pending"]]
    /\ signatures = {}
    /\ buckets = {}
    /\ clusters = <<>>
    /\ cursor = [r \in 0..(stage4_tasks - 1) |-> 0]
    /\ dedup_output = [r \in 0..(stage4_tasks - 1) |-> <<>>]
    /\ removed = [r \in 0..(stage4_tasks - 1) |-> <<>>]
    /\ task_error = [r \in 0..(stage4_tasks - 1) |-> "none"]

\* every task of the stage has succeeded
StageDone(stage) ==
    IF stage = "scrape_filter_stage"
    THEN scrape_status = "done"
    ELSE \A r \in DOMAIN task_status[stage] : task_status[stage][r] = "done"

SetStatus(stage, rank, st) ==
    task_status' = [task_status EXCEPT ![stage][rank] = st]

\* scrape_filter_stage writes filtering_output
ScrapeFinish ==
    /\ scrape_status = "pending"
    /\ scrape_status' = "done"
    /\ \E sharding \in Shardings, text \in CorpusTexts :
          filtering_output' = Corpus(sharding, text)
    /\ UNCHANGED <<num_tasks, task_status, signatures, buckets, clusters, cursor,
                   dedup_output, removed, task_error, rvars, wvars>>

ScrapeFail ==
    /\ scrape_status = "pending"
    /\ scrape_status' = "failed"
    /\ UNCHANGED <<num_tasks, filtering_output, task_status, signatures, buckets,
                   clusters, cursor, dedup_output, removed, task_error, rvars, wvars>>

\* the scheduler starts a task once the stage it depends on has succeeded
TaskStart(stage, rank) ==
    /\ task_status[stage][rank] = "pending"
    /\ StageDone(depends[stage])
    /\ SetStatus(stage, rank, "running")
    /\ UNCHANGED <<num_tasks, scrape_status, filtering_output, signatures, buckets,
                   clusters, cursor, dedup_output, removed, task_error, rvars, wvars>>

\* a task exits abnormally
TaskFail(stage, rank) ==
    /\ task_status[stage][rank] = "running"
    /\ SetStatus(stage, rank, "failed")
    /\ UNCHANGED <<num_tasks, scrape_status, filtering_output, signatures, buckets,
                   clusters, cursor, dedup_output, removed, task_error, rvars, wvars>>

\* stage 1: input_reader, MinhashDedupSignature
Stage1Finish(rank) ==
    /\ task_status["stage1"][rank] = "running"
    /\ LET shard_docs == TaskDocs(rank, stage1_tasks)
       IN signatures' = signatures \cup
            UNION { MinhashDedupSignature(shard_docs[i]) : i \in DOMAIN shard_docs }
    /\ SetStatus("stage1", rank, "done")
    /\ UNCHANGED <<num_tasks, scrape_status, filtering_output, buckets, clusters,
                   cursor, dedup_output, removed, task_error, rvars, wvars>>

\* stage 2: MinhashDedupBuckets, one task per bucket
Stage2Finish(rank) ==
    /\ task_status["stage2"][rank] = "running"
    /\ buckets' = buckets \cup MinhashDedupBuckets(rank + 1, signatures)
    /\ SetStatus("stage2", rank, "done")
    /\ UNCHANGED <<num_tasks, scrape_status, filtering_output, signatures, clusters,
                   cursor, dedup_output, removed, task_error, rvars, wvars>>

\* stage 3: MinhashDedupCluster, a single task
Stage3Finish(rank) ==
    /\ task_status["stage3"][rank] = "running"
    /\ clusters' = MinhashDedupCluster(buckets)
    /\ SetStatus("stage3", rank, "done")
    /\ UNCHANGED <<num_tasks, scrape_status, filtering_output, signatures, buckets,
                   cursor, dedup_output, removed, task_error, rvars, wvars>>

\* stage 4, one document through input_reader, MinhashDedupFilter, Rehydrater,
\* TokensCounter, JsonlWriter
Stage4Doc(rank) ==
    /\ task_status["stage4"][rank] = "running"
    /\ cursor[rank] < Len(TaskDocs(rank, stage4_tasks))
    /\ \E annotate \in UnassignedAnnotation :
         LET doc == TaskDocs(rank, stage4_tasks)[cursor[rank] + 1]
             f == MinhashDedupFilter(doc, annotate)
         IN IF ~f.keep
            THEN /\ removed' = IF exclusion_writer
                               THEN [removed EXCEPT ![rank] = Append(@, f.doc)]
                               ELSE removed
                 /\ cursor' = [cursor EXCEPT ![rank] = @ + 1]
                 /\ UNCHANGED <<dedup_output, task_status, task_error>>
            ELSE IF RaisesKeyError(f.doc)
            THEN /\ SetStatus("stage4", rank, "failed")
                 /\ task_error' = [task_error EXCEPT ![rank] = "KeyError"]
                 /\ UNCHANGED <<dedup_output, removed, cursor>>
            ELSE /\ dedup_output' =
                      [dedup_output EXCEPT ![rank] = @ \o RehydraterYield(RehydrateDoc(f.doc))]
                 /\ cursor' = [cursor EXCEPT ![rank] = @ + 1]
                 /\ UNCHANGED <<removed, task_status, task_error>>
    /\ UNCHANGED <<num_tasks, scrape_status, filtering_output, signatures, buckets,
                   clusters, rvars, wvars>>

\* stage 4: the reader is exhausted and the task exits normally
Stage4Finish(rank) ==
    /\ task_status["stage4"][rank] = "running"
    /\ cursor[rank] = Len(TaskDocs(rank, stage4_tasks))
    /\ SetStatus("stage4", rank, "done")
    /\ UNCHANGED <<num_tasks, scrape_status, filtering_output, signatures, buckets,
                   clusters, cursor, dedup_output, removed, task_error, rvars, wvars>>

Next ==
    \/ ScrapeFinish
    \/ ScrapeFail
    \/ \E stage \in DedupStages : \E rank \in DOMAIN task_status[stage] :
          TaskStart(stage, rank)
    \/ \E stage \in DedupStages : \E rank \in DOMAIN task_status[stage] :
          TaskFail(stage, rank)
    \/ \E rank \in DOMAIN task_status["stage1"] : Stage1Finish(rank)
    \/ \E rank \in DOMAIN task_status["stage2"] : Stage2Finish(rank)
    \/ \E rank \in DOMAIN task_status["stage3"] : Stage3Finish(rank)
    \/ \E rank \in DOMAIN task_status["stage4"] : Stage4Doc(rank)
    \/ \E rank \in DOMAIN task_status["stage4"] : Stage4Finish(rank)

Spec == Init /\ [][Next]_vars

(***************************************************************************)
(* Properties of Rehydrater.run (specification SpecRehydrate)              *)
(***************************************************************************)
ThresholdTable == (1 :> 1) @@ (2 :> 2) @@ (3 :> 3) @@ (5 :> 5) @@ (100 :> 8) @@ (1000 :> 1)

\* the weight of the largest threshold that does not exceed k
StepWeight(k) ==
    LET below == { t \in DOMAIN ThresholdTable : t <= k }
    IN ThresholdTable[CHOOSE t \in below : \A u \in below : u <= t]

\* C1: every document Rehydrater.run yields with cluster size k >= 1 carries the
\* weight of the largest threshold Ti <= k of {1:1, 2:2, 3:3, 5:5, 100:8, 1000:1};
\* k = 4 gives 3, k = 1000 gives 1, k = 1500 gives 1; no consumed document is
\* withheld, and the weight is determined by the cluster size alone.
C1_StepFunctionWeight ==
    /\ Len(out) = data_pos
    /\ \A i \in 1..Len(out) :
         LET k == out[i].metadata["minhash_cluster_size"]
             w == out[i].metadata["upsampling_weight"]
         IN k >= 1 =>
              /\ w = StepWeight(k)
              /\ (k = 4 => w = 3)
              /\ (k = 1000 => w = 1)
              /\ (k = 1500 => w = 1)

\* a stream whose first document has cluster size 1500 and whose second has 4
C1_Witness ==
    /\ Len(out) = 2
    /\ out[1].metadata["minhash_cluster_size"] = 1500
    /\ out[1].metadata["upsampling_weight"] = 1
    /\ out[2].metadata["minhash_cluster_size"] = 4
    /\ out[2].metadata["upsampling_weight"] = 3

\* C8: Rehydrater.run applied to its own output yields the same documents in the
\* same order with the same weights; a run that finishes has emitted each input
\* document exactly once, with id, text and every metadata key other than
\* upsampling_weight unchanged.
C8_Idempotent ==
    /\ (pass = 2 => rstate # "raised")
    /\ (pass = 2 /\ rstate = "finished" => out = first_out)
    /\ (rstate = "finished" =>
          /\ Len(out) = Len(data)
          /\ \A i \in 1..Len(out) :
               /\ out[i].id = data[i].id
               /\ out[i].text = data[i].text
               /\ DOMAIN out[i].metadata = DOMAIN data[i].metadata \cup {"upsampling_weight"}
               /\ \A key \in DOMAIN data[i].metadata \ {"upsampling_weight"} :
                    out[i].metadata[key] = data[i].metadata[key])

\* the second application has finished on two documents, one of weight 8
C8_Witness ==
    /\ pass = 2
    /\ rstate = "finished"
    /\ Len(out) = 2
    /\ out[1].metadata["upsampling_weight"] = 8
    /\ out[2].metadata["upsampling_weight"] = 3

(***************************************************************************)
(* Properties of EnhancedWarcReader.read_file (specification SpecReader)   *)
(***************************************************************************)
\* the exception classes of the model that derive from Exception
DerivedFromException == {"OSError"}

\* the documents a file gives before it ends or raises
FileYield(f) ==
    [i \in 1..(IF shard[f].fail_at = -1 THEN shard[f].ndocs ELSE shard[f].fail_at)
        |-> <<f, i>>]

RECURSIVE YieldThrough(_)
YieldThrough(f) == IF f = 0 THEN <<>> ELSE YieldThrough(f - 1) \o FileYield(f)

RECURSIVE FailedThrough(_)
FailedThrough(f) ==
    IF f = 0 THEN <<>>
    ELSE FailedThrough(f - 1) \o (IF shard[f].fail_at = -1 THEN <<>> ELSE <<f>>)

\* C9: an exception (a class deriving from Exception) raised while a file is read
\* is logged and ends that file only: what the file yielded before stays yielded,
\* the task is not aborted, and the files after it are read.
C9_SkipsFailingFile ==
    reader_status # "idle" =>
        /\ yielded = YieldThrough(file_idx - 1) \o [i \in 1..file_pos |-> <<file_idx, i>>]
        /\ error_log = FailedThrough(file_idx - 1)
        /\ (reader_status = "completed" => file_idx = Len(shard) + 1)
        /\ (reader_status = "aborted" =>
               /\ shard[file_idx].fail_at = file_pos
               /\ shard[file_idx].exc \notin DerivedFromException)

\* the first file raised after one of its two documents, and the second file
\* was read to its end
C9_Witness ==
    /\ reader_status = "completed"
    /\ Len(shard) = 2
    /\ shard[1].ndocs = 2
    /\ shard[1].fail_at = 1
    /\ shard[2].ndocs = 2
    /\ shard[2].fail_at = -1
    /\ yielded = << <<1, 1>>, <<2, 1>>, <<2, 2>> >>
    /\ error_log = <<1>>

(***************************************************************************)
(* Properties of run_full_pipeline (specification Spec)                    *)
(***************************************************************************)
ExecutorOrder == <<"stage1", "stage2", "stage3", "stage4">>

Started(stage) == \E r \in DOMAIN task_status[stage] : task_status[stage][r] # "pending"

Failed(stage) == \E r \in DOMAIN task_status[stage] : task_status[stage][r] = "failed"

Succeeded(stage) == \A r \in DOMAIN task_status[stage] : task_status[stage][r] = "done"

\* two documents share the fingerprint of a band
Match(a, b, band) ==
    /\ a # b
    /\ \E f \in Fingerprints :
          /\ [doc |-> a, band |-> band, fp |-> f] \in signatures
          /\ [doc |-> b, band |-> band, fp |-> f] \in signatures

\* the output every task of the stage has to have written
Committed(stage) ==
    CASE stage = "stage1" ->
           \A r \in DOMAIN task_status[stage] :
              LET shard_docs == TaskDocs(r, Cardinality(DOMAIN task_status[stage]))
              IN \A i \in DOMAIN shard_docs :
                    \A b \in DOMAIN shard_docs[i].text :
                       [doc |-> shard_docs[i].id, band |-> b, fp |-> shard_docs[i].text[b]]
                           \in signatures
      [] stage = "stage2" ->
           \A r \in DOMAIN task_status[stage] :
              \A a \in Docs, b \in Docs :
                 (a < b /\ Match(a, b, r + 1))
                    => [band |-> r + 1, a |-> a, b |-> b] \in buckets
      [] stage = "stage3" ->
           \A e \in buckets : e.a \in DOMAIN clusters /\ e.b \in DOMAIN clusters
      [] OTHER -> TRUE

\* the Rehydrater of some stage-4 task has processed a document
RehydrateStarted == \E r \in DOMAIN dedup_output : dedup_output[r] # <<>>

ExecutorBarriers ==
    \A i \in 1..3 :
        /\ Started(ExecutorOrder[i + 1]) =>
              Succeeded(ExecutorOrder[i]) /\ Committed(ExecutorOrder[i])
        /\ Failed(ExecutorOrder[i]) =>
              \A j \in (i + 1)..4 : ~Started(ExecutorOrder[j])

\* C2 as stated: Sign, Match, Cluster, Filter and Rehydrate are five stages in
\* sequence, each starting only after every task of the one before has succeeded
\* and committed; a failed task keeps every later stage from starting. Rehydrate
\* here is the Rehydrater step and Filter the dedup filter of the stage-4 tasks.
C2_FiveStageBarrier ==
    /\ ExecutorBarriers
    /\ (RehydrateStarted => Succeeded("stage4"))
    /\ (Failed("stage4") => ~RehydrateStarted)

\* C2, amended: the barriers hold between the executors stage1 (Sign), stage2
\* (Match), stage3 (Cluster) and stage4 (Filter with Rehydrate): no task of an executor starts before every task of the executor
\* before it has succeeded and committed, and a failed task keeps every later
\* executor from starting. The Rehydrater runs inside the stage-4 tasks, on each
\* document as the filter forwards it, so it starts only after the Cluster
\* stage has fully succeeded but not after the Filter has.
C2_ExecutorBarrier ==
    /\ ExecutorBarriers
    /\ (RehydrateStarted => Succeeded("stage3") /\ Committed("stage3"))

\* two signing tasks and two filter tasks, the Rehydrater at work in one of them
C2_Witness ==
    /\ Cardinality(DOMAIN task_status["stage1"]) = 2
    /\ RehydrateStarted
    /\ \E r \in DOMAIN task_status["stage4"] : task_status["stage4"][r] = "running"
    /\ clusters # <<>>

RECURSIVE CountId(_, _)
CountId(q, d) ==
    IF q = <<>> THEN 0
    ELSE (IF Head(q).id = d THEN 1 ELSE 0) + CountId(Tail(q), d)

RECURSIVE SumOver(_, _)
SumOver(f, D) ==
    IF D = {} THEN 0
    ELSE LET x == CHOOSE y \in D : TRUE IN f[x] + SumOver(f, D \ {x})

\* how often a document was written to the dedup output / to the exclusion writer
KeptCount(d) == SumOver([r \in DOMAIN dedup_output |-> CountId(dedup_output[r], d)],
                        DOMAIN dedup_output)

DroppedCount(d) == SumOver([r \in DOMAIN removed |-> CountId(removed[r], d)],
                           DOMAIN removed)

\* C3: once the filter stage has succeeded, a document with a cluster assignment
\* is kept if and only if its id is its cluster's id, that id is the minimum
\* member id, every other member is dropped, and so each cluster has exactly
\* one survivor, wherever the documents sit in the stream or the shards.
C3_OneSurvivorPerCluster ==
    Succeeded("stage4") =>
        \A d \in DOMAIN clusters :
            LET c == clusters[d].cluster_id
                members == { e \in DOMAIN clusters : clusters[e].cluster_id = c }
            IN /\ c = SetMin(members)
               /\ (d = c => KeptCount(d) = 1 /\ DroppedCount(d) = 0)
               /\ (d # c => KeptCount(d) = 0 /\ DroppedCount(d) = 1)
               /\ Cardinality({ e \in members : KeptCount(e) > 0 }) = 1

\* two filter tasks, a cluster of three whose minimum id is not the first
\* document of the stream, the highest id alone in the first file
C3_Witness ==
    /\ Succeeded("stage4")
    /\ Cardinality(DOMAIN task_status["stage4"]) = 2
    /\ Len(filtering_output[1]) = 1
    /\ filtering_output[1][1].id = MaxDocs
    /\ \E d \in DOMAIN clusters : clusters[d].cluster_size = 3 /\ clusters[d].cluster_id = 1
    /\ KeptCount(1) = 1

\* the documents that entered bucket matching: those with a signature
Entered == { x.doc : x \in signatures }

RECURSIVE KeptSizes(_)
KeptSizes(q) ==
    IF q = <<>> THEN 0
    ELSE (IF Head(q).id \in Entered THEN Head(q).metadata["minhash_cluster_size"] ELSE 0)
         + KeptSizes(Tail(q))

\* C4: once the filter stage has succeeded, every document that entered bucket
\* matching was written exactly once, either to the dedup output or to the
\* exclusion writer, and the cluster sizes reported on the survivors sum to the
\* number of documents that entered matching.
C4_Coverage ==
    Succeeded("stage4") =>
        /\ \A d \in Entered : KeptCount(d) + DroppedCount(d) = 1
        /\ SumOver([r \in DOMAIN dedup_output |-> KeptSizes(dedup_output[r])],
                   DOMAIN dedup_output) = Cardinality(Entered)

\* every document entered matching, one was dropped and one survives unmatched
C4_Witness ==
    /\ Succeeded("stage4")
    /\ Entered = Docs
    /\ \E d \in Docs : DroppedCount(d) = 1
    /\ \E d \in Docs : d \notin DOMAIN clusters /\ KeptCount(d) = 1

\* a document outside the cluster files is a cluster of its own
ClusterIdOf(d) == IF d \in DOMAIN clusters THEN clusters[d].cluster_id ELSE d

Bands == 1..num_buckets

\* C5: once the cluster stage has succeeded, documents A, B, C with A matching B
\* in one band and B matching C in a band (the same or another) have one cluster
\* id, and no pair found by the matching stage joins two clusters.
C5_TransitiveClusters ==
    Succeeded("stage3") /\ Started("stage3") =>
        /\ \A a \in Docs, b \in Docs, c \in Docs :
             (\E b1 \in Bands : Match(a, b, b1)) /\ (\E b2 \in Bands : Match(b, c, b2))
                => ClusterIdOf(a) = ClusterIdOf(b) /\ ClusterIdOf(b) = ClusterIdOf(c)
        /\ \A e \in buckets : ClusterIdOf(e.a) = ClusterIdOf(e.b)

\* A and B match in band 1 only, B and C in band 2 only, A and C in no band
C5_Witness ==
    /\ Succeeded("stage3") /\ Started("stage3")
    /\ \E a \in Docs, b \in Docs, c \in Docs :
         /\ Match(a, b, 1) /\ ~Match(a, b, 2)
         /\ Match(b, c, 2) /\ ~Match(b, c, 1)
         /\ \A band \in Bands : ~Match(a, c, band)
         /\ ClusterIdOf(a) = ClusterIdOf(c)

\* the documents of the corpus, whatever file holds them
RECURSIVE Flatten(_)
Flatten(files) == IF files = <<>> THEN <<>> ELSE Head(files) \o Flatten(Tail(files))

CorpusDocs == { Flatten(filtering_output)[i] : i \in DOMAIN Flatten(filtering_output) }

\* the duplicate pairs the texts themselves imply, in any band
TextPairs ==
    { [band |-> b, a |-> x.id, b |-> y.id] :
        <<x, y, b>> \in { t \in CorpusDocs \X CorpusDocs \X Bands :
                            /\ t[1].id < t[2].id
                            /\ t[3] \in DOMAIN t[1].text
                            /\ t[3] \in DOMAIN t[2].text
                            /\ t[1].text[t[3]] = t[2].text[t[3]] } }

TextCluster(d) == Reach({d}, TextPairs)

PipelineDone ==
    /\ scrape_status = "done"
    /\ \A i \in 1..4 : Succeeded(ExecutorOrder[i])

RECURSIVE CountSize(_, _)
CountSize(q, n) ==
    IF q = <<>> THEN 0
    ELSE (IF Head(q).metadata["minhash_cluster_size"] = n THEN 1 ELSE 0)
         + CountSize(Tail(q), n)

\* C6: a finished run keeps exactly the minimum id of every cluster the texts
\* imply, drops every other document, and reports exactly the multiset of the
\* sizes of those clusters: the outcome is a function of the document set and
\* the hash configuration, so runs that differ in num_tasks, in sharding or in
\* the interleaving of tasks agree.
C6_Deterministic ==
    PipelineDone =>
        /\ \A d \in Docs :
             IF d = SetMin(TextCluster(d))
             THEN KeptCount(d) = 1 /\ DroppedCount(d) = 0
             ELSE KeptCount(d) = 0 /\ DroppedCount(d) = 1
        /\ \A n \in 1..MaxDocs :
             SumOver([r \in DOMAIN dedup_output |-> CountSize(dedup_output[r], n)],
                     DOMAIN dedup_output)
               = Cardinality({ TextCluster(d) : d \in { e \in Docs : Cardinality(TextCluster(e)) = n } })

\* C7: a document without a cluster assignment that a stage-4 task has processed
\* was kept and written with cluster size 1 and upsampling weight 1, and no
\* stage-4 task ends in the Rehydrater's KeyError.
C7_UnassignedSingleton ==
    /\ \A r \in DOMAIN task_error : task_error[r] # "KeyError"
    /\ \A r \in DOMAIN cursor :
         \A i \in 1..cursor[r] :
            LET doc == TaskDocs(r, Cardinality(DOMAIN cursor))[i]
            IN doc.id \notin DOMAIN clusters =>
                 \E j \in DOMAIN dedup_output[r] :
                    /\ dedup_output[r][j].id = doc.id
                    /\ dedup_output[r][j].metadata["minhash_cluster_size"] = 1
                    /\ dedup_output[r][j].metadata["upsampling_weight"] = 1

\* C10: for every num_tasks >= 1 the signature stage and the filter stage get the
\* same task count num_tasks // 5, and it is at least 1.
C10_DedupTasksAtLeastOne ==
    num_tasks >= 1 =>
        /\ stage1_tasks = stage4_tasks
        /\ stage1_tasks >= 1
        /\ DOMAIN task_status["stage1"] # {}
        /\ DOMAIN task_status["stage4"] # {}

====
